---- MODULE Spec2Model ----
(***************************************************************************)
(* State-machine model of LinuxNativeDispatcher.c: the one-time probe      *)
(* (init), the two extended-stat queries (statx0, statxfd0) and the        *)
(* in-kernel copy (directCopy0) with its two tiers, copy_file_range and    *)
(* sendfile64, and its polled cancellation flag.                           *)
(*                                                                         *)
(* One native thread runs one call at a time; pc is its position in the    *)
(* call.  A second thread may write the cancellation flag at any moment    *)
(* of a copy.  Every kernel call attempt is one step, so that a restart    *)
(* after EINTR is visible.  File contents are symbolic: the destination    *)
(* is the list of source extents [off, len] appended to it, adjacent       *)
(* extents merged, so the real chunk sizes of the code can be kept.        *)
(***************************************************************************)
EXTENDS Integers, Sequences, FiniteSets, TLC

\* ------------------------------------------------------------------ bounds
\* largest run of consecutive interrupted attempts of one kernel call
MaxEINTR == 2
\* number of short (less than requested) chunks the kernel returns per call
MaxShort == 2
\* source sizes reach MaxChunks full chunks plus one byte
MaxChunks == 2
\* number of times init is run
MaxProbes == 2

\* ------------------------------------------------- constants of the program
EINTR == 4
EIO == 5
EAGAIN == 11
EACCES == 13
EXDEV == 18
EINVAL == 22
ENOSYS == 38
ECANCELED == 125
ENOENT == 2

IOS_UNAVAILABLE == -2
IOS_UNSUPPORTED == -4
IOS_THROWN == -5
IOS_UNSUPPORTED_CASE == -6

AT_SYMLINK_NOFOLLOW == 256
AT_STATX_SYNC_AS_STAT == 0
STATX_BASIC_STATS == 2047
STATX_BTIME == 2048
AT_EMPTY_PATH == 4096
AT_FDCWD == -100
NO_FOLLOW_SYMLINK == 1
FOLLOW_SYMLINK == 0
JNI_FALSE == 0
JNI_TRUE == 1

\* chunk size when a cancellation handle is supplied (1 MB)
CANCEL_COUNT == 1048576
\* chunk size otherwise: the most sendfile() transfers in one call (0x7ffff000)
MAX_COUNT == 2147479552

\* bitwise or of two non-negative ints, as C's | computes it
RECURSIVE BitOr(_, _)
BitOr(a, b) ==
    IF a = 0 THEN b
    ELSE IF b = 0 THEN a
    ELSE (IF a % 2 = 1 \/ b % 2 = 1 THEN 1 ELSE 0) + 2 * BitOr(a \div 2, b \div 2)

STATX_ALL == BitOr(STATX_BTIME, STATX_BASIC_STATS)

Min(a, b) == IF a <= b THEN a ELSE b

\* ------------------------------------------------------------ probe (init)
\* the JNI lookups of init, in the order the code performs them
PreLookups ==
    << "UnixMountEntry", "entry_name", "entry_dir", "entry_fstype",
       "entry_options", "LinuxNativeDispatcher", "dp_statx_supported" >>

StatxLookups ==
    << "LinuxFileAttributes", "attrs_stx_btime_nsec", "UnixFileAttributes",
       "attrs_st_mode", "attrs_st_ino", "attrs_st_dev", "attrs_st_rdev",
       "attrs_st_nlink", "attrs_st_uid", "attrs_st_gid", "attrs_st_size",
       "attrs_st_atime_sec", "attrs_st_atime_nsec", "attrs_st_mtime_sec",
       "attrs_st_mtime_nsec", "attrs_st_ctime_sec", "attrs_st_ctime_nsec",
       "attrs_st_birthtime_sec" >>

\* the record fields copy_statx_attributes writes, by the handle it uses
AttrFields ==
    { "attrs_st_mode", "attrs_st_ino", "attrs_st_nlink", "attrs_st_uid",
      "attrs_st_gid", "attrs_st_size", "attrs_st_atime_sec",
      "attrs_st_mtime_sec", "attrs_st_ctime_sec", "attrs_st_birthtime_sec",
      "attrs_stx_btime_nsec", "attrs_st_atime_nsec", "attrs_st_mtime_nsec",
      "attrs_st_ctime_nsec", "attrs_st_dev", "attrs_st_rdev" }

\* the lookup that fails: none (0) or any one of them, by its position
FailPoints == 0..(Len(PreLookups) + Len(StatxLookups))

Prefix(s, n) == { s[i] : i \in 1..Min(n, Len(s)) }

VARIABLES
    env,                      \* the running system: [statx, cfr] are the symbols
                              \* dlsym finds, fail the JNI lookup that fails
    inited,                   \* init has returned
    probes,                   \* history: number of runs of init
    my_statx_func,            \* TRUE: non-NULL
    my_copy_file_range_func,  \* TRUE: non-NULL
    supports_statx,           \* static field LinuxNativeDispatcher.supports_statx
    resolved,                 \* names of the classes and field ids resolved
    op,                       \* the native call in progress
    pc,                       \* its position
    follow_links,             \* statx0 argument
    fd,                       \* statxfd0 argument
    path,                     \* statx0 argument
    attrs,                    \* the caller's attributes record
    cancelSupplied,           \* directCopy0: cancelAddress != 0
    cancelFlag,               \* *cancel
    count,                    \* directCopy0 local
    bytes_sent,               \* directCopy0 local
    errno,
    srcSize, srcPos,          \* source file: size and file position
    dst,                      \* destination file: extents of the source
    ret,                      \* value returned to Java
    exc,                      \* exception pending on return
    lastEv,                   \* history: the last kernel call or flag read
    eintrs,                   \* history: consecutive EINTR results
    nshort,                   \* history: short chunks returned so far
    aErr,                     \* history: Tier A's definitive error
    flagSetAt,                \* history: pc at which the flag was set
    chunksAfterSet,           \* history: chunks completed after the set
    chunks                    \* history: chunk operations begun, by tier

capVars == << env, inited, probes, my_statx_func, my_copy_file_range_func,
              supports_statx, resolved >>
statVars == << follow_links, fd, path, attrs >>
copyVars == << cancelSupplied, cancelFlag, count, bytes_sent, srcSize, srcPos,
               dst, exc, nshort, aErr, flagSetAt, chunksAfterSet, chunks >>
vars == << capVars, statVars, copyVars, op, pc, errno, ret, lastEv, eintrs >>

NoExc == [kind |-> "none", errnum |-> 0]
NoEv == [fn |-> "none", args |-> << >>, res |-> 0, err |-> 0]
NoErr == [err |-> 0, pos |-> 0]
NoChunks == [a |-> 0, b |-> 0]

Init ==
    /\ env \in [statx : BOOLEAN, cfr : BOOLEAN, fail : FailPoints]
    \* the lookups of lines 211-246 are performed only when statx is found
    /\ env.statx \/ env.fail <= Len(PreLookups)
    /\ inited = FALSE
    /\ probes = 0
    /\ my_statx_func = FALSE
    /\ my_copy_file_range_func = FALSE
    /\ supports_statx = FALSE
    /\ resolved = {}
    /\ op = "none"
    /\ pc = "idle"
    /\ follow_links = JNI_TRUE
    /\ fd = 0
    /\ path = ""
    /\ attrs = [f \in AttrFields |-> "caller"]
    /\ cancelSupplied = FALSE
    /\ cancelFlag = 0
    /\ count = 0
    /\ bytes_sent = 0
    /\ errno = 0
    /\ srcSize = 0
    /\ srcPos = 0
    /\ dst = << >>
    /\ ret = 0
    /\ exc = NoExc
    /\ lastEv = NoEv
    /\ eintrs = 0
    /\ nshort = 0
    /\ aErr = NoErr
    /\ flagSetAt = "never"
    /\ chunksAfterSet = 0
    /\ chunks = NoChunks

\* the name of the i-th lookup of init
Lookup(i) ==
    IF i <= Len(PreLookups) THEN PreLookups[i] ELSE StatxLookups[i - Len(PreLookups)]

\* the handles after a run of init that performed the lookups of done: each
\* lookup assigns its handle, the failed one (0: none) assigns NULL
Assigned(old, done, failAt) ==
    (old \cup done) \ (IF failAt = 0 THEN {} ELSE {Lookup(failAt)})

\* Java_sun_nio_fs_LinuxNativeDispatcher_init; failAt is the lookup that
\* returns NULL (0: none).  CHECK_NULL returns from init at once.
init(failAt) ==
    /\ pc = "idle"
    /\ probes < MaxProbes
    /\ probes' = probes + 1
    /\ inited' = TRUE
    /\ IF failAt \in 1..Len(PreLookups)
       THEN \* lines 190-204: return before either dlsym
            /\ resolved' = Assigned(resolved, Prefix(PreLookups, failAt - 1), failAt)
            /\ UNCHANGED << my_statx_func, supports_statx,
                            my_copy_file_range_func >>
       ELSE /\ my_statx_func' = env.statx                      \* line 206
            /\ IF env.statx
               THEN /\ supports_statx' = TRUE                  \* line 209
                    /\ IF failAt > Len(PreLookups)
                       THEN \* lines 211-246: return before the second dlsym
                            /\ resolved' =
                                 Assigned(resolved,
                                          Prefix(PreLookups, Len(PreLookups))
                                            \cup Prefix(StatxLookups,
                                                   failAt - Len(PreLookups) - 1),
                                          failAt)
                            /\ UNCHANGED my_copy_file_range_func
                       ELSE /\ resolved' =
                                 Assigned(resolved,
                                          Prefix(PreLookups, Len(PreLookups))
                                            \cup Prefix(StatxLookups, Len(StatxLookups)),
                                          0)
                            /\ my_copy_file_range_func' = env.cfr \* line 249
               ELSE /\ UNCHANGED supports_statx
                    /\ resolved' = Assigned(resolved,
                                            Prefix(PreLookups, Len(PreLookups)), 0)
                    /\ my_copy_file_range_func' = env.cfr         \* line 249
    /\ UNCHANGED << env, statVars, copyVars, op, pc, errno, ret, lastEv,
                    eintrs >>

\* ------------------------------------------------------------ shared pieces
\* mutant: an interrupted call is not restarted
NeverRestart(result, err) == FALSE

\* RESTARTABLE: the command is issued again while this holds of its result
RESTARTABLE(result, err) == result = -1 /\ err = EINTR

\* results one attempt of a kernel call can have, given the errors it can
\* report: a run of interrupted attempts is cut off at MaxEINTR
Failures(errs) ==
    { [res |-> -1, err |-> e] : e \in errs \ (IF eintrs < MaxEINTR THEN {} ELSE {EINTR}) }

Ev(fn, args, r) == [fn |-> fn, args |-> args, res |-> r.res, err |-> r.err]

\* ------------------------------------------------------------------ queries
Paths == { "/file", "/link" }
Fds == { 3, 4 }
StatxErrs == { EINTR, ENOENT, EACCES }

\* mutant: the no-follow flag is added when links are to be followed
statx_wrapperInverted(dirfd, pathname, flags, mask, follow_symlink) ==
    [ dirfd |-> dirfd, pathname |-> pathname,
      flags |-> IF follow_symlink = FOLLOW_SYMLINK
                THEN BitOr(flags, AT_SYMLINK_NOFOLLOW) ELSE flags,
      mask |-> mask ]

\* statx_wrapper: the arguments my_statx_func is called with
statx_wrapper(dirfd, pathname, flags, mask, follow_symlink) ==
    [ dirfd |-> dirfd, pathname |-> pathname,
      flags |-> IF follow_symlink = NO_FOLLOW_SYMLINK
                THEN BitOr(flags, AT_SYMLINK_NOFOLLOW) ELSE flags,
      mask |-> mask ]

\* the call statx0 makes (line 372)
Statx0Call ==
    LET f_symlink == IF follow_links = JNI_FALSE
                     THEN NO_FOLLOW_SYMLINK ELSE FOLLOW_SYMLINK
    IN  statx_wrapper(AT_FDCWD, path, AT_STATX_SYNC_AS_STAT, STATX_ALL, f_symlink)

\* the call statxfd0 makes (line 398)
StatxfdCall ==
    statx_wrapper(fd, "", BitOr(AT_EMPTY_PATH, AT_STATX_SYNC_AS_STAT),
                  STATX_ALL, FOLLOW_SYMLINK)

\* mutant: the result of the call is returned in place of errno
StatxReturnResult(avail, err, e) ==
    IF avail THEN err ELSE 0

\* the value statx0 and statxfd0 return: avail is my_statx_func != NULL,
\* err the result of the restarted call, e the errno it left
StatxReturn(avail, err, e) ==
    IF avail THEN (IF err = 0 THEN 0 ELSE e) ELSE 0

\* copy_statx_attributes: every field is written through its handle; a
\* handle init never resolved is an invalid jfieldID and the write through
\* it is undefined: such writes either land or do not (or the VM crashes,
\* see StatxAttempt)
copy_statx_attributes(old) ==
    { [f \in AttrFields |-> IF f \in resolved \cup wild THEN "kernel" ELSE old[f]] :
        wild \in { {}, AttrFields \ resolved } }

BeginCommon ==
    /\ pc = "idle"
    /\ inited
    /\ errno' = 0
    /\ lastEv' = NoEv
    /\ eintrs' = 0
    /\ UNCHANGED capVars

\* statx0, entry to the call (lines 361-371) or the not-supported return
statx0(p, follow) ==
    /\ BeginCommon
    /\ op' = "statx0"
    /\ path' = p
    /\ follow_links' = follow
    /\ IF my_statx_func
       THEN pc' = "statx" /\ UNCHANGED ret
       ELSE pc' = "done" /\ ret' = StatxReturn(FALSE, 0, 0)
    /\ UNCHANGED << fd, attrs, copyVars >>

\* statxfd0, entry to the call (lines 390-395) or the not-supported return
statxfd0(f) ==
    /\ BeginCommon
    /\ op' = "statxfd0"
    /\ fd' = f
    /\ IF my_statx_func
       THEN pc' = "statx" /\ UNCHANGED ret
       ELSE pc' = "done" /\ ret' = StatxReturn(FALSE, 0, 0)
    /\ UNCHANGED << follow_links, path, attrs, copyVars >>

\* one attempt of the statx call and, when it is not restarted, the rest of
\* the query (lines 372-378, 398-404)
StatxAttempt ==
    /\ pc = "statx"
    /\ \E r \in {[res |-> 0, err |-> 0]} \cup Failures(StatxErrs) :
        /\ lastEv' = Ev("statx", IF op = "statx0" THEN Statx0Call ELSE StatxfdCall, r)
        /\ errno' = IF r.res = -1 THEN r.err ELSE errno
        /\ IF RESTARTABLE(r.res, r.err)
           THEN /\ eintrs' = eintrs + 1
                /\ UNCHANGED << pc, ret, attrs >>
           ELSE /\ eintrs' = 0
                /\ ret' = StatxReturn(TRUE, r.res, r.err)
                /\ IF r.res = 0
                   THEN /\ attrs' \in copy_statx_attributes(attrs)
                        /\ pc' \in IF AttrFields \subseteq resolved
                                   THEN {"done"} ELSE {"done", "crashed"}
                   ELSE /\ pc' = "done"
                        /\ UNCHANGED attrs
    /\ UNCHANGED << capVars, op, follow_links, fd, path, copyVars >>


\* --------------------------------------------------------------- the kernel
\* largest file offset the model represents
MaxOff == MAX_COUNT + 4095

\* source sizes: empty, one byte, and up to MaxChunks whole chunks of the
\* call's chunk size, with and without one byte more
SrcSizes(c) ==
    {0, 1} \cup { k * c + d : k \in 1..Min(MaxChunks, (MaxOff - 1) \div c), d \in {0, 1} }

\* an offset argument: << >> is NULL (use and advance the file position),
\* << o >> points at an offset o
ReadAt(off) == IF off = << >> THEN srcPos ELSE off[1]

\* lengths a successful transfer of at most c bytes at offset o can have: 0
\* only at end of data; short counts are allowed MaxShort times per call
ChunkLens(c, o) ==
    LET avail == IF o < srcSize THEN srcSize - o ELSE 0
        full == Min(c, avail)
    IN  {full} \cup (IF nshort < MaxShort
                     THEN { n \in {1, avail \div 2} : 0 < n /\ n < full }
                     ELSE {})

Successes(c, off) == { [res |-> n, err |-> 0] : n \in ChunkLens(c, ReadAt(off)) }

\* the destination after len bytes of the source at offset off are appended
DstAppend(d, off, len) ==
    IF len = 0 THEN d
    ELSE IF d # << >> /\ d[Len(d)].off + d[Len(d)].len = off
    THEN [d EXCEPT ![Len(d)].len = @ + len]
    ELSE Append(d, [off |-> off, len |-> len])

CfrErrs == { EINTR, EINVAL, ENOSYS, EXDEV, EAGAIN, EIO, ECANCELED }
SendfileErrs == { EINTR, EINVAL, ENOSYS, EXDEV, EAGAIN, EIO, ECANCELED }

\* --------------------------------------------------------------------- copy
\* the chunk size (lines 436-438)
Count(supplied) == IF supplied THEN CANCEL_COUNT ELSE MAX_COUNT

\* the call of line 443
CfrCall ==
    [ fd_in |-> "src", off_in |-> << >>, fd_out |-> "dst", off_out |-> << >>,
      len |-> count, flags |-> 0 ]

\* mutant: sendfile is given an offset of 0 instead of NULL
SendfileCallFromStart ==
    [ out_fd |-> "dst", in_fd |-> "src", offset |-> << 0 >>, count |-> count ]

\* the call of line 468
SendfileCall ==
    [ out_fd |-> "dst", in_fd |-> "src", offset |-> << >>, count |-> count ]

\* mutant: EXDEV is not among the errors that lead to sendfile
TierAAbandonNoXdev(e) == e \in { EINVAL, ENOSYS }

\* mutant: EAGAIN is among the errors that lead to sendfile
TierAAbandonOnEagain(e) == e \in { EINVAL, ENOSYS, EXDEV, EAGAIN }

\* the errors of copy_file_range after which sendfile is tried (lines 447-451)
TierAAbandon(e) == e \in { EINVAL, ENOSYS, EXDEV }

\* mutant: EXDEV is reported as an unsupported case, as Tier A treats it
TierBReturnXdevUnsupported(e) ==
    IF e = EAGAIN THEN [ret |-> IOS_UNAVAILABLE, exc |-> NoExc]
    ELSE IF e = EINVAL \/ e = ENOSYS \/ e = EXDEV
    THEN [ret |-> IOS_UNSUPPORTED_CASE, exc |-> NoExc]
    ELSE [ret |-> IOS_THROWN, exc |-> [kind |-> "UnixException", errnum |-> e]]

\* what directCopy0 returns after a failed sendfile (lines 470-475)
TierBReturn(e) ==
    IF e = EAGAIN THEN [ret |-> IOS_UNAVAILABLE, exc |-> NoExc]
    ELSE IF e = EINVAL \/ e = ENOSYS
    THEN [ret |-> IOS_UNSUPPORTED_CASE, exc |-> NoExc]
    ELSE [ret |-> IOS_THROWN, exc |-> [kind |-> "UnixException", errnum |-> e]]

\* mutant: the flag is never honoured
CancelRequestedNever(supplied, flag) == FALSE

\* the test of lines 457 and 477
CancelRequested(supplied, flag) == supplied /\ flag # 0

\* mutant: the loops stop after their first chunk
ContinueLoopNever(n) == FALSE

\* mutant: the loops go on after a chunk that found the end of data
ContinueLoopAtEnd(n) == n >= 0

\* the loop condition of lines 461 and 481
ContinueLoop(n) == n > 0

\* mutant: Tier A is entered whether or not range-copy was found
FirstTierAlwaysA(func) == "cfr"

\* the tier the call starts in (line 441)
FirstTier(func) == IF func THEN "cfr" ELSE "sf"

\* mutant: range-copy is switched off for later calls once it reports ENOSYS
CfrDisabledOnEnosys(func, res, e) == IF res = -1 /\ e = ENOSYS THEN FALSE ELSE func

\* my_copy_file_range_func after a copy_file_range attempt with result res
\* and errno e (lines 443-456): the call never assigns it
CfrAfterResult(func, res, e) == func

CopyPcs == { "cfr", "cfr_cancel", "cfr_while", "sf", "sf_cancel", "sf_while" }

\* directCopy0, entry (lines 433-441): an empty destination, a source at
\* position 0, a handle or none, its flag possibly set already
directCopy0(size, supplied, flag) ==
    /\ BeginCommon
    /\ size \in SrcSizes(Count(supplied))
    /\ supplied \/ flag = 0
    /\ op' = "directCopy0"
    /\ cancelSupplied' = supplied
    /\ cancelFlag' = flag
    /\ flagSetAt' = IF flag # 0 THEN "entry" ELSE "never"
    /\ count' = Count(supplied)
    /\ srcSize' = size
    /\ srcPos' = 0
    /\ dst' = << >>
    /\ pc' = FirstTier(my_copy_file_range_func)
    /\ UNCHANGED << statVars, bytes_sent, ret, exc, nshort, aErr, chunksAfterSet,
                    chunks >>

\* no call makes this many chunks in one tier: every chunk before the end of
\* data moves a byte, so the chunk count of a tier saturates here
ChunkCap == MaxChunks + MaxShort + 3

\* the effect of a transfer attempt with result r on the files and history
Transfer(tier, off, r) ==
    /\ bytes_sent' = r.res
    /\ chunks' = IF eintrs = 0
                 THEN [chunks EXCEPT ![tier] = Min(@ + 1, ChunkCap)] ELSE chunks
    /\ errno' = IF r.res = -1 THEN r.err ELSE errno
    /\ IF r.res > 0
       THEN /\ dst' = DstAppend(dst, ReadAt(off), r.res)
            /\ srcPos' = IF off = << >> THEN srcPos + r.res ELSE srcPos
            /\ nshort' = IF r.res < Min(count, srcSize - ReadAt(off))
                         THEN nshort + 1 ELSE nshort
       ELSE UNCHANGED << dst, srcPos, nshort >>
    /\ IF RESTARTABLE(r.res, r.err)
       THEN /\ eintrs' = eintrs + 1
            /\ UNCHANGED chunksAfterSet
       ELSE /\ eintrs' = 0
            /\ chunksAfterSet' = IF cancelFlag # 0 THEN chunksAfterSet + 1
                                 ELSE chunksAfterSet

\* one attempt of copy_file_range and, when it is not restarted, the switch
\* on its error (lines 443-456)
CopyFileRange ==
    /\ pc = "cfr"
    /\ \E r \in Successes(CfrCall.len, CfrCall.off_in) \cup Failures(CfrErrs) :
        /\ lastEv' = Ev("copy_file_range", CfrCall, r)
        /\ Transfer("a", CfrCall.off_in, r)
        /\ my_copy_file_range_func' =
               CfrAfterResult(my_copy_file_range_func, r.res, r.err)
        /\ IF RESTARTABLE(r.res, r.err)
           THEN UNCHANGED << pc, ret, exc, aErr >>
           ELSE IF r.res < 0
           THEN /\ aErr' = [err |-> r.err, pos |-> srcPos]
                /\ IF TierAAbandon(r.err)
                   THEN pc' = "cfr_cancel" /\ UNCHANGED << ret, exc >>
                   ELSE /\ exc' = [kind |-> "IOException", errnum |-> r.err]
                        /\ ret' = IOS_THROWN
                        /\ pc' = "done"
           ELSE pc' = "cfr_cancel" /\ UNCHANGED << ret, exc, aErr >>
    /\ UNCHANGED << env, inited, probes, my_statx_func, supports_statx, resolved,
                    statVars, op, cancelSupplied, cancelFlag, count,
                    srcSize, flagSetAt >>

\* the read of the flag and the return it can cause
CancelCheck(next) ==
    /\ lastEv' = IF cancelSupplied
                 THEN [fn |-> "cancel_read", args |-> << >>,
                       res |-> cancelFlag, err |-> 0]
                 ELSE lastEv
    /\ IF CancelRequested(cancelSupplied, cancelFlag)
       THEN /\ exc' = [kind |-> "UnixException", errnum |-> ECANCELED]
            /\ ret' = IOS_THROWN
            /\ pc' = "done"
       ELSE pc' = next /\ UNCHANGED << ret, exc >>
    /\ UNCHANGED << capVars, statVars, op, errno, eintrs, cancelSupplied,
                    cancelFlag, count, bytes_sent, srcSize, srcPos, dst, nshort,
                    aErr, flagSetAt, chunksAfterSet, chunks >>

\* lines 457-460
CancelCheckA == pc = "cfr_cancel" /\ CancelCheck("cfr_while")

\* lines 461-465: the loop test of Tier A, the return of 0 or the fall
\* through to sendfile
LoopTestA ==
    /\ pc = "cfr_while"
    /\ IF ContinueLoop(bytes_sent)
       THEN pc' = "cfr" /\ UNCHANGED << ret, exc >>
       ELSE IF bytes_sent = 0
       THEN pc' = "done" /\ ret' = 0 /\ exc' = NoExc
       ELSE pc' = "sf" /\ UNCHANGED << ret, exc >>
    /\ UNCHANGED << capVars, statVars, op, errno, lastEv, eintrs, cancelSupplied,
                    cancelFlag, count, bytes_sent, srcSize, srcPos, dst, nshort,
                    aErr, flagSetAt, chunksAfterSet, chunks >>

\* one attempt of sendfile64 and, when it is not restarted, the mapping of
\* its error (lines 468-476)
Sendfile ==
    /\ pc = "sf"
    /\ \E r \in Successes(SendfileCall.count, SendfileCall.offset)
                  \cup Failures(SendfileErrs) :
        /\ lastEv' = Ev("sendfile64", SendfileCall, r)
        /\ Transfer("b", SendfileCall.offset, r)
        /\ IF RESTARTABLE(r.res, r.err)
           THEN UNCHANGED << pc, ret, exc >>
           ELSE IF r.res < 0
           THEN /\ ret' = TierBReturn(r.err).ret
                /\ exc' = TierBReturn(r.err).exc
                /\ pc' = "done"
           ELSE pc' = "sf_cancel" /\ UNCHANGED << ret, exc >>
    /\ UNCHANGED << capVars, statVars, op, cancelSupplied, cancelFlag, count,
                    srcSize, aErr, flagSetAt >>

\* lines 477-480
CancelCheckB == pc = "sf_cancel" /\ CancelCheck("sf_while")

\* lines 481-483
LoopTestB ==
    /\ pc = "sf_while"
    /\ IF ContinueLoop(bytes_sent)
       THEN pc' = "sf" /\ UNCHANGED << ret, exc >>
       ELSE pc' = "done" /\ ret' = 0 /\ exc' = NoExc
    /\ UNCHANGED << capVars, statVars, op, errno, lastEv, eintrs, cancelSupplied,
                    cancelFlag, count, bytes_sent, srcSize, srcPos, dst, nshort,
                    aErr, flagSetAt, chunksAfterSet, chunks >>

\* another thread sets the flag of the handle while the copy runs
SetCancel ==
    /\ op = "directCopy0"
    /\ pc \in CopyPcs
    /\ cancelSupplied
    /\ cancelFlag = 0
    /\ cancelFlag' = 1
    /\ flagSetAt' = pc
    /\ chunksAfterSet' = 0
    /\ UNCHANGED << capVars, statVars, op, pc, errno, ret, lastEv, eintrs,
                    cancelSupplied, count, bytes_sent, srcSize, srcPos, dst,
                    exc, nshort, aErr, chunks >>

\* the call has returned; the thread is free for the next call
Finish ==
    /\ pc = "done"
    /\ pc' = "idle"
    /\ op' = "none"
    /\ follow_links' = JNI_TRUE
    /\ fd' = 0
    /\ path' = ""
    /\ attrs' = [f \in AttrFields |-> "caller"]
    /\ cancelSupplied' = FALSE
    /\ cancelFlag' = 0
    /\ count' = 0
    /\ bytes_sent' = 0
    /\ errno' = 0
    /\ srcSize' = 0
    /\ srcPos' = 0
    /\ dst' = << >>
    /\ ret' = 0
    /\ exc' = NoExc
    /\ lastEv' = NoEv
    /\ eintrs' = 0
    /\ nshort' = 0
    /\ aErr' = NoErr
    /\ flagSetAt' = "never"
    /\ chunksAfterSet' = 0
    /\ chunks' = NoChunks
    /\ UNCHANGED capVars

Next ==
    \/ init(env.fail)
    \/ \E p \in Paths, follow \in {JNI_FALSE, JNI_TRUE} : statx0(p, follow)
    \/ \E f \in Fds : statxfd0(f)
    \/ StatxAttempt
    \/ \E size \in SrcSizes(CANCEL_COUNT) \cup SrcSizes(MAX_COUNT),
          supplied \in BOOLEAN, flag \in {0, 1} : directCopy0(size, supplied, flag)
    \/ CopyFileRange
    \/ CancelCheckA
    \/ LoopTestA
    \/ Sendfile
    \/ CancelCheckB
    \/ LoopTestB
    \/ SetCancel
    \/ Finish

Spec == Init /\ [][Next]_vars

\* the environments in which every lookup of init succeeds: directCopy0
\* reads nothing of the capability table but my_copy_file_range_func
FairInit == Init /\ env.fail = 0

\* the steps of the thread that executes directCopy0 (lines 441-483)
CopyStep ==
    \/ CopyFileRange
    \/ CancelCheckA
    \/ LoopTestA
    \/ Sendfile
    \/ CancelCheckB
    \/ LoopTestB

\* the thread inside directCopy0 keeps running: every kernel call returns
\* and the thread is scheduled again
FairSpec == FairInit /\ [][Next]_vars /\ WF_vars(CopyStep)

\* ---------------------------------------------------------------- outcomes
InCopy == op = "directCopy0"
InQuery == op \in {"statx0", "statxfd0"}
Done == pc = "done"

\* TransferOutcome variants, as the caller sees them
IsSuccess == ret = 0 /\ exc = NoExc
IsCancelled ==
    ret = IOS_THROWN /\ exc = [kind |-> "UnixException", errnum |-> ECANCELED]

\* the whole first n bytes of the source, as a destination
Whole(n) == IF n = 0 THEN << >> ELSE << [off |-> 0, len |-> n] >>

\* the last thing the call did was a chunk that failed for good
ChunkFailed ==
    /\ lastEv.fn \in {"copy_file_range", "sendfile64"}
    /\ lastEv.res = -1
    /\ lastEv.err # EINTR

Interrupted(e) ==
    e.fn \in {"statx", "copy_file_range", "sendfile64"} /\ e.res = -1 /\ e.err = EINTR

\* ------------------------------------------------------------------ claims

\* C1: a copy during which the flag is never set and no kernel call fails
\* with anything but EINTR returns Success, and the destination then holds
\* exactly the source's bytes, in order; with or without range-copy and
\* whatever chunk lengths the kernel returns.
C1_FullCopy ==
    (InCopy /\ Done /\ flagSetAt = "never" /\ aErr = NoErr /\ ~ChunkFailed)
        => (IsSuccess /\ dst = Whole(srcSize))

C1_Witness ==
    /\ InCopy /\ Done /\ IsSuccess
    /\ flagSetAt = "never" /\ aErr = NoErr
    /\ cancelSupplied
    /\ srcSize > count
    /\ nshort > 0
    /\ dst = Whole(srcSize)

\* C2: when copy_file_range reports EINVAL, EXDEV or ENOSYS, on the first
\* chunk or after it moved bytes, the flag is not set and sendfile reports no
\* error, the call returns Success without a pending exception and the
\* destination holds exactly the source's bytes.
C2_Fallback ==
    ( /\ InCopy /\ Done
      /\ aErr.err \in {EINVAL, EXDEV, ENOSYS}
      /\ flagSetAt = "never"
      /\ ~(lastEv.fn = "sendfile64" /\ lastEv.res = -1) )
        => (IsSuccess /\ dst = Whole(srcSize))

C2_Witness ==
    /\ InCopy /\ Done /\ IsSuccess
    /\ aErr.err = EXDEV
    /\ 0 < aErr.pos /\ aErr.pos < srcSize
    /\ flagSetAt = "never"
    /\ dst = Whole(srcSize)

\* C3 as stated: once the flag is set while the copy runs, at most one more
\* chunk completes, and the call ends with Cancelled unless that chunk
\* itself ended in an error.
C3_Original ==
    (InCopy /\ flagSetAt \in CopyPcs) =>
        /\ chunksAfterSet <= 1
        /\ Done => \/ IsCancelled
                   \/ (chunksAfterSet = 1 /\ ChunkFailed /\ ~IsSuccess)

\* C3 amended: ... unless that chunk itself ended in an error, or the flag
\* was set only after the last read of the flag, the one that followed the
\* zero-length chunk: then no further chunk is issued and the call returns
\* Success.
C3_CancelLatency ==
    (InCopy /\ flagSetAt \in CopyPcs) =>
        /\ chunksAfterSet <= 1
        /\ Done => \/ IsCancelled
                   \/ (chunksAfterSet = 1 /\ ChunkFailed /\ ~IsSuccess)
                   \/ /\ IsSuccess
                      /\ flagSetAt \in {"cfr_while", "sf_while"}
                      /\ chunksAfterSet = 0
                      /\ bytes_sent = 0

C3_Witness ==
    /\ InCopy /\ Done /\ IsCancelled
    /\ flagSetAt \in {"cfr_while", "sf_while"}
    /\ chunksAfterSet = 1
    /\ 0 < srcPos /\ srcPos < srcSize

\* C4: in every state of a copy the destination is the prefix of the source
\* that the source position has advanced over, never more than the source.
C4_Prefix ==
    InCopy => (dst = Whole(srcPos) /\ srcPos <= srcSize)

C4_Witness ==
    /\ InCopy /\ Done /\ IsCancelled
    /\ TierAAbandon(aErr.err)
    /\ 0 < aErr.pos /\ aErr.pos < srcPos /\ srcPos < srcSize
    /\ dst = Whole(srcPos)

\* C5: a call whose last chunk succeeded with length 0 ends with Success,
\* whatever the flag.
C5_CompletionFirst ==
    (InCopy /\ Done /\ bytes_sent = 0 /\ ~ChunkFailed) => IsSuccess

\* C6: the value a query returns when extended-stat is unavailable differs
\* from the value of a successful query and from every error code.
C6_NotPerformedDistinct ==
    (InQuery /\ Done /\ ~my_statx_func) =>
        /\ ret # StatxReturn(TRUE, 0, 0)
        /\ \A e \in StatxErrs \ {EINTR} : ret # StatxReturn(TRUE, -1, e)

\* C7: an interrupted kernel call is followed by the same call with the same
\* arguments and by nothing else of the call; EINTR reaches no result.
C7_Restart ==
    /\ [](Done => (ret # EINTR /\ exc.errnum # EINTR))
    /\ [](Interrupted(lastEv) =>
            pc = (CASE lastEv.fn = "statx" -> "statx"
                    [] lastEv.fn = "copy_file_range" -> "cfr"
                    [] OTHER -> "sf"))
    /\ [][Interrupted(lastEv) =>
            IF lastEv' = lastEv THEN pc' = pc
            ELSE lastEv'.fn = lastEv.fn /\ lastEv'.args = lastEv.args]_vars

C7_Witness ==
    /\ Interrupted(lastEv)
    /\ eintrs = MaxEINTR
    /\ pc = "sf"
    /\ srcPos > 0

\* C8: a sendfile chunk that fails with an error other than EINTR ends the
\* call at once: WouldBlock for EAGAIN, UnsupportedForThisDescriptorPair for
\* EINVAL and ENOSYS, Failed with the raw error otherwise; on every chunk and
\* whatever the flag.
C8_TierBErrors ==
    (lastEv.fn = "sendfile64" /\ lastEv.res = -1 /\ lastEv.err # EINTR) =>
        /\ Done
        /\ lastEv.err = EAGAIN => (ret = IOS_UNAVAILABLE /\ exc = NoExc)
        /\ lastEv.err \in {EINVAL, ENOSYS} =>
               (ret = IOS_UNSUPPORTED_CASE /\ exc = NoExc)
        /\ lastEv.err \notin {EAGAIN, EINVAL, ENOSYS} =>
               /\ ret = IOS_THROWN
               /\ exc = [kind |-> "UnixException", errnum |-> lastEv.err]

C8_Witness ==
    /\ Done /\ lastEv.fn = "sendfile64" /\ lastEv.err = EXDEV /\ lastEv.res = -1
    /\ cancelFlag = 1
    /\ srcPos > 0
    /\ ret = IOS_THROWN

\* C9: a copy_file_range chunk that fails with an error other than EINTR,
\* EINVAL, EXDEV and ENOSYS ends the call at once with Failed carrying that
\* error, the flag unread; WouldBlock is reported after a sendfile only.
C9_TierAFatal ==
    /\ ( /\ lastEv.fn = "copy_file_range" /\ lastEv.res = -1
         /\ lastEv.err \notin {EINTR, EINVAL, EXDEV, ENOSYS} ) =>
           /\ Done
           /\ ret = IOS_THROWN
           /\ exc = [kind |-> "IOException", errnum |-> lastEv.err]
    /\ (InCopy /\ Done /\ ret = IOS_UNAVAILABLE) => lastEv.fn = "sendfile64"

C9_Witness ==
    /\ Done /\ lastEv.fn = "copy_file_range" /\ lastEv.err = EAGAIN
    /\ lastEv.res = -1
    /\ cancelFlag = 1
    /\ srcPos > 0
    /\ ret = IOS_THROWN

\* C10: when sendfile reports EINVAL or ENOSYS the outcome is
\* UnsupportedForThisDescriptorPair if Tier A was attempted and abandoned,
\* and UnsupportedOnThisPlatform if range-copy is marked absent.
C10_UnsupportedSelection ==
    ( /\ InCopy /\ Done
      /\ lastEv.fn = "sendfile64" /\ lastEv.res = -1
      /\ lastEv.err \in {EINVAL, ENOSYS} ) =>
        IF my_copy_file_range_func
        THEN TierAAbandon(aErr.err) /\ ret = IOS_UNSUPPORTED_CASE
        ELSE ret = IOS_UNSUPPORTED

\* the single-bit flag b is set in x
HasFlag(x, b) == (x \div b) % 2 = 1

\* C11: every statx call of statx0 is made with AT_FDCWD, the caller's path
\* and AT_SYMLINK_NOFOLLOW exactly when follow_links is false; every statx
\* call of statxfd0 with the descriptor, an empty path, AT_EMPTY_PATH and
\* without AT_SYMLINK_NOFOLLOW; all of them, restarts included, ask for the
\* basic stats and the birth time.
C11_StatRequest ==
    lastEv.fn = "statx" =>
        /\ lastEv.args.mask = STATX_BASIC_STATS + STATX_BTIME
        /\ op = "statx0" =>
              /\ lastEv.args.dirfd = AT_FDCWD
              /\ lastEv.args.pathname = path
              /\ HasFlag(lastEv.args.flags, AT_SYMLINK_NOFOLLOW)
                     <=> (follow_links = JNI_FALSE)
              /\ ~HasFlag(lastEv.args.flags, AT_EMPTY_PATH)
        /\ op = "statxfd0" =>
              /\ lastEv.args.dirfd = fd
              /\ lastEv.args.pathname = ""
              /\ HasFlag(lastEv.args.flags, AT_EMPTY_PATH)
              /\ ~HasFlag(lastEv.args.flags, AT_SYMLINK_NOFOLLOW)

C11_Witness ==
    /\ op = "statx0" /\ Done
    /\ follow_links = JNI_FALSE
    /\ path = "/link"
    /\ lastEv.fn = "statx" /\ lastEv.res = 0
    /\ lastEv.args.flags = AT_SYMLINK_NOFOLLOW

\* C12: once init has returned, no step changes a capability: neither a
\* further run of init in the same environment nor any step of statx0,
\* statxfd0 or directCopy0.
C12_Frozen ==
    [][inited => /\ my_statx_func' = my_statx_func
                 /\ my_copy_file_range_func' = my_copy_file_range_func
                 /\ supports_statx' = supports_statx]_vars

C12_Witness ==
    /\ probes >= 2
    /\ InCopy /\ Done
    /\ aErr.err = ENOSYS
    /\ my_copy_file_range_func /\ my_statx_func

\* C13: after init has returned, my_copy_file_range_func tells whether the
\* system has copy_file_range, whatever became of the statx probe and of its
\* lookups, and my_statx_func tells whether the system has statx, provided
\* init got as far as probing it.
C13_Independent ==
    (inited /\ env.fail \notin 1..Len(PreLookups)) =>
        /\ my_copy_file_range_func = env.cfr
        /\ my_statx_func = env.statx

\* C18: after init has returned, statx marked available (my_statx_func set,
\* supports_statx true) implies that every handle copy_statx_attributes
\* writes through has been resolved.
C18_HandlesResolved ==
    (inited /\ my_statx_func /\ supports_statx) => AttrFields \subseteq resolved

\* C14: a copy that ended with Failed, that is by a chunk that failed for
\* good, returns a result other than the one of a cancelled copy.
C14_CancelledDistinct ==
    (InCopy /\ Done /\ ChunkFailed) => ~IsCancelled

\* C15: once copy_file_range has reported EINVAL, EXDEV or ENOSYS no
\* further copy_file_range call is issued and the call does not return
\* before sendfile has been called, whatever the flag.
C15_AbandonLeadsToTierB ==
    (InCopy /\ aErr.err \in {EINVAL, EXDEV, ENOSYS}) =>
        /\ pc # "cfr"
        /\ Done => chunks.b > 0

\* C16: within one copy call every copy_file_range call precedes every
\* sendfile call; with range-copy absent no copy_file_range call is issued
\* and the first kernel call is sendfile; the call ends in exactly one
\* outcome, and once it is produced the call makes no further kernel call,
\* cancellation check or second outcome.
C16_TierOrder ==
    /\ []((InCopy /\ (chunks.b > 0 \/ pc \in {"sf", "sf_cancel", "sf_while"}))
            => lastEv.fn # "copy_file_range" \/ pc = "sf")
    /\ [][(InCopy /\ (chunks.b > 0 \/ pc \in {"sf", "sf_cancel", "sf_while"}))
            => (chunks'.a = chunks.a \/ pc' = "idle")]_vars
    /\ []((InCopy /\ ~my_copy_file_range_func) =>
            /\ chunks.a = 0
            /\ pc \in {"sf", "sf_cancel", "sf_while", "done"}
            /\ lastEv.fn # "copy_file_range")
    /\ []((InCopy /\ ~Done) => (ret = 0 /\ exc = NoExc))
    /\ []((InCopy /\ Done) =>
            \/ IsSuccess
            \/ ret = IOS_THROWN /\ exc # NoExc
            \/ ret \in {IOS_UNAVAILABLE, IOS_UNSUPPORTED_CASE} /\ exc = NoExc)
    /\ [][(InCopy /\ Done) =>
            \/ pc' = "idle"
            \/ /\ pc' = pc
               /\ UNCHANGED << ret, exc, lastEv, chunks, dst, srcPos >>]_vars

C16_Witness ==
    /\ InCopy /\ Done
    /\ ~my_copy_file_range_func
    /\ chunks.a = 0 /\ chunks.b = MaxChunks
    /\ ret = IOS_UNAVAILABLE

\* C17: a query whose statx call fails returns the errno of that final,
\* non-interrupted failure and leaves every field of the caller's attributes
\* as supplied; a query made while statx is unavailable issues no statx call
\* and leaves every field, birth time included, as supplied.
C17_FailedQueryFrame ==
    /\ (InQuery /\ Done /\ lastEv.fn = "statx" /\ lastEv.res = -1) =>
          /\ ret = lastEv.err
          /\ ret \in StatxErrs \ {EINTR}
          /\ \A f \in AttrFields : attrs[f] = "caller"
    /\ (InQuery /\ ~my_statx_func) =>
          /\ Done
          /\ lastEv = NoEv
          /\ \A f \in AttrFields : attrs[f] = "caller"

C17_Witness ==
    /\ InQuery /\ Done
    /\ op = "statxfd0"
    /\ lastEv.fn = "statx" /\ lastEv.res = -1
    /\ ret = EACCES

\* C19: a call entered with the flag of its handle already set issues exactly
\* one chunk operation, of at most 1 MiB and in the tier the capability
\* table selects, before it reports Cancelled; a call without a handle never
\* reports Cancelled and never writes a flag.
C19_NoCheckBeforeFirstChunk ==
    /\ (InCopy /\ flagSetAt = "entry") =>
          /\ count = CANCEL_COUNT
          /\ chunks.a + chunks.b <= 1
          /\ srcPos <= CANCEL_COUNT
          /\ (Done /\ IsCancelled) =>
                chunks = IF my_copy_file_range_func
                         THEN [a |-> 1, b |-> 0] ELSE [a |-> 0, b |-> 1]
    /\ (InCopy /\ ~cancelSupplied) =>
          /\ ~(Done /\ IsCancelled)
          /\ cancelFlag = 0

\* C20: with at most MaxEINTR interrupted attempts in a row and at least one
\* byte moved by every successful chunk before the end of data, every copy
\* call reaches a terminal outcome, with or without a handle and with or
\* without range-copy; an interrupted attempt leaves the call where it was,
\* reads no flag and changes nothing but the count of restarts, so that
\* without the bound the call can restart forever, also with the flag set.
C20_Termination ==
    /\ InCopy ~> Done
    /\ [](InCopy => (chunks.a < ChunkCap /\ chunks.b < ChunkCap))
    /\ [][(pc \in {"cfr", "sf"} /\ Interrupted(lastEv') /\ eintrs' = eintrs + 1)
            => /\ pc' = pc
               /\ UNCHANGED << ret, exc, srcPos, dst, cancelFlag, count, chunksAfterSet >>
               /\ lastEv'.fn # "cancel_read"]_vars

C20_Witness ==
    /\ InCopy /\ Done
    /\ ~cancelSupplied
    /\ chunks.a > 1 /\ chunks.b > 1
    /\ IsSuccess

====
